---- MODULE Spec2Model ----
(***************************************************************************)
(* Wide residual network on CIFAR-100 (deepobs/cifar100/cifar100_wrn.py).  *)
(*                                                                         *)
(* The model follows the class set_up: the construction of the graph by    *)
(* set_up.set_up (tensor shapes, variables, graph collections, residual    *)
(* units), the three phase-switching operations made by __init__, and the  *)
(* evaluation of the graph on a batch (the selection made by every         *)
(* batch_norm layer and the accuracy).  Tensors are modelled by their      *)
(* shapes; the logits and labels of a batch are modelled by value.         *)
(***************************************************************************)
EXTENDS Integers, Sequences, FiniteSets, TLC

\* ---------------------------------------------------------------- bounds
MaxUnits == 2      \* num_residual_units ranges over 1..MaxUnits
MaxK == 2          \* k ranges over 1..MaxK
MaxBatch == 2      \* batch_size ranges over 1..MaxBatch

\* height, width and channels of the input images (odd sides, and CIFAR's)
Images == {<<5, 7, 1>>, <<32, 32, 3>>}
\* the classes that carry the largest logit, or the label, of a data point
PeakClasses == {1, 100}
\* values of weight_decay, in units of 1e-4
WeightDecays == {0, 5}
\* value of bn_decay, in tenths
BnDecays == {9}

\* ------------------------------------------------------ program constants
NumClasses == 100

VARIABLES
    pc,             \* position in __init__ / set_up, then "ready"
    args,           \* arguments of __init__ and the shape of the images
    inputs,         \* X, y, phase as returned by data_loading.load()
    i, j,           \* loop counters of set_up
    g,              \* the graph under construction
    out,            \* linear_outputs, losses, accuracy of set_up
    ops,            \* train_init_op, train_eval_init_op, test_init_op
    phase,          \* value of the phase variable of data_loading
    last_op,        \* which of the three operations was run last
    ran,            \* the data_loading operations executed by the last run
    logits, labels, \* values of linear_outputs and y in the last evaluation
    accuracy,       \* value of the accuracy tensor: <<numerator, denominator>>
    bn_select       \* the phase of the last run of the graph, and the
                    \* statistics each batch_norm layer selected in it

vars == <<pc, args, inputs, i, j, g, out, ops, phase, last_op, ran,
          logits, labels, accuracy, bn_select>>

\* ------------------------------------------------------------- helpers
CeilDiv(a, b) == (a + b - 1) \div b

InSeq(e, s) == \E n \in 1..Len(s) : s[n] = e

Scope(s, bi, bj) == [s |-> s, i |-> bi, j |-> bj]
TopScope == Scope("", 0, 0)

\* tf.get_variable: a new variable; an existing name without reuse raises
get_variable(gr, sc, layer, name, shape, trainable) ==
    LET v == [sc |-> sc, layer |-> layer, name |-> name,
              shape |-> shape, trainable |-> trainable]
    IN IF \E w \in gr.variables :
              w.sc = sc /\ w.layer = layer /\ w.name = name
       THEN [gr EXCEPT !.error = TRUE]
       ELSE [gr EXCEPT !.variables = @ \cup {v}]

\* the variable just made by get_variable
TheVar(sc, layer, name, shape, trainable) ==
    [sc |-> sc, layer |-> layer, name |-> name,
     shape |-> shape, trainable |-> trainable]

\* output shape of tf.nn.conv2d / tf.nn.max_pool
Conv2dShape(xs, fs, oc, stride, padding) ==
    IF padding = "SAME"
    THEN <<xs[1], CeilDiv(xs[2], stride), CeilDiv(xs[3], stride), oc>>
    ELSE <<xs[1], (xs[2] - fs) \div stride + 1,
                  (xs[3] - fs) \div stride + 1, oc>>

MaxPoolShape(xs, ks, stride) ==
    <<xs[1], (xs[2] - ks) \div stride + 1, (xs[3] - ks) \div stride + 1, xs[4]>>

\* "W not in tf.get_collection(...)": add W once
AddRegularizable(gr, W) ==
    IF ~InSeq(W, gr.regularizable_variables)
    THEN [gr EXCEPT !.regularizable_variables = Append(@, W)]
    ELSE gr

\* set_up.conv on tensor xs: the graph afterwards, and the output shape
conv(gr, xs, sc, filter_size, out_channels, stride, padding, name) ==
    LET shp == <<filter_size, filter_size, xs[4], out_channels>>
        W == TheVar(sc, name, "W", shp, TRUE)
        g1 == get_variable(gr, sc, name, "W", shp, TRUE)
    IN [g |-> AddRegularizable(g1, W),
        x |-> Conv2dShape(xs, filter_size, out_channels, stride, padding)]

\* the moving averages only in the test phase
batch_norm_select_test_only(phase_value) ==
    IF phase_value # "test"
    THEN <<"mean_batch", "variance_batch">>
    ELSE <<"mean_avg", "std_avg">>

\* lines 227-229: the statistics tf.cond selects for a value of phase
batch_norm_select(phase_value) ==
    IF phase_value = "train"
    THEN <<"mean_batch", "variance_batch">>
    ELSE <<"mean_avg", "std_avg">>

\* set_up.batch_norm on tensor xs: the graph afterwards, and the output shape
batch_norm(gr, xs, sc, phase_t, decay, name) ==
    LET mshape == <<xs[Len(xs)]>>
        g1 == get_variable(gr, sc, name, "mean_avg", mshape, FALSE)
        g2 == get_variable(g1, sc, name, "std_avg", mshape, FALSE)
        g3 == get_variable(g2, sc, name, "beta", mshape, TRUE)
        g4 == get_variable(g3, sc, name, "gamma", mshape, TRUE)
        upd(v) == [op |-> "assign", var |-> v, decay |-> decay]
        g5 == [g4 EXCEPT !.UPDATE_OPS =
                  @ \o <<upd(TheVar(sc, name, "mean_avg", mshape, FALSE)),
                         upd(TheVar(sc, name, "std_avg", mshape, FALSE))>>]
        layer == [sc |-> sc, layer |-> name, phase |-> phase_t]
    IN [g |-> [g5 EXCEPT !.bn = @ \cup {layer}], x |-> xs]

\* fc with the bias regularized as well
fc_bias_decay(gr, xs, sc, out_dim, name) ==
    LET wshape == <<xs[2], out_dim>>
        W == [sc |-> sc, layer |-> name, name |-> "W",
              shape |-> wshape, trainable |-> TRUE]
        b == [sc |-> sc, layer |-> name, name |-> "b",
              shape |-> <<out_dim>>, trainable |-> TRUE]
    IN [g |-> [gr EXCEPT !.variables = @ \cup {W, b},
                         !.regularizable_variables = @ \o <<W, b>>],
        x |-> <<xs[1], out_dim>>]

\* set_up.fc on tensor xs: the graph afterwards, and the output shape
fc(gr, xs, sc, out_dim, name) ==
    LET wshape == <<xs[2], out_dim>>
        W == TheVar(sc, name, "W", wshape, TRUE)
        g1 == get_variable(gr, sc, name, "W", wshape, TRUE)
        g2 == AddRegularizable(g1, W)
        g3 == get_variable(g2, sc, name, "b", <<out_dim>>, TRUE)
    IN [g |-> g3, x |-> <<xs[1], out_dim>>]

\* shape of a + b with broadcasting; <<>> when the shapes do not fit
AddShape(a, b) ==
    IF Len(a) = Len(b)
       /\ \A d \in 1..Len(a) : a[d] = b[d] \/ a[d] = 1 \/ b[d] = 1
    THEN [d \in 1..Len(a) |-> IF a[d] = 1 THEN b[d] ELSE a[d]]
    ELSE <<>>

\* "x = x + shortcut" closing the variable scope sc
Merge(gr, xs, shortcut, sc) ==
    LET s == AddShape(xs, shortcut)
        g1 == [gr EXCEPT !.units =
                  Append(@, [sc |-> sc, x |-> xs, shortcut |-> shortcut])]
    IN [g |-> IF s = <<>> THEN [g1 EXCEPT !.error = TRUE] ELSE g1, x |-> s]

\* line 89-90
filters(k) == <<16, 16 * k, 32 * k, 64 * k>>
strides == <<1, 2, 2>>

\* line 103: xrange(1, 4, 1)
Blocks == 1..3

\* num_residual_units further units after the first one
FurtherUnits_inclusive(num_residual_units) == 1..num_residual_units

\* line 135: xrange(1, num_residual_units, 1)
FurtherUnits(num_residual_units) == 1..(num_residual_units - 1)

\* lines 106-132: the first residual unit of block bi
first_unit(gr, xs, bi, k, phase_t, decay) ==
    LET sc == Scope("unit", bi, 0)
        fin == filters(k)[bi]
        fout == filters(k)[bi + 1]
        st == strides[bi]
        b1 == batch_norm(gr, xs, sc, phase_t, decay, "bn_1")
        sh == IF fin = fout
              THEN IF st = 1
                   THEN [g |-> b1.g, x |-> b1.x]
                   ELSE [g |-> b1.g, x |-> MaxPoolShape(b1.x, st, st)]
              ELSE conv(b1.g, b1.x, sc, 1, fout, st, "SAME", "shortcut")
        c1 == conv(sh.g, b1.x, sc, 3, fout, st, "SAME", "conv_1")
        b2 == batch_norm(c1.g, c1.x, sc, phase_t, decay, "bn_2")
        c2 == conv(b2.g, b2.x, sc, 3, fout, 1, "SAME", "conv_2")
    IN Merge(c2.g, c2.x, sh.x, sc)

\* lines 136-153: a further residual unit bj of block bi
further_unit(gr, xs, bi, bj, k, phase_t, decay) ==
    LET sc == Scope("unit", bi, bj)
        fout == filters(k)[bi + 1]
        b1 == batch_norm(gr, xs, sc, phase_t, decay, "bn_1")
        c1 == conv(b1.g, b1.x, sc, 3, fout, 1, "SAME", "conv_1")
        b2 == batch_norm(c1.g, c1.x, sc, phase_t, decay, "bn_2")
        c2 == conv(b2.g, b2.x, sc, 3, fout, 1, "SAME", "conv_2")
    IN Merge(c2.g, c2.x, xs, sc)

\* ------------------------------------------------ values on one batch
\* tf.argmax over one row: the (0-based) index of the first largest entry
argmax(row) ==
    LET values == {row[c] : c \in DOMAIN row}
        largest == CHOOSE v \in values : \A w \in values : w <= v
    IN (CHOOSE c \in DOMAIN row :
           row[c] = largest /\ \A d \in 1..(c - 1) : row[d] # largest) - 1

RECURSIVE reduce_sum(_)
reduce_sum(s) == IF s = <<>> THEN 0 ELSE s[1] + reduce_sum(Tail(s))

\* the number of correct predictions, not their mean
accuracy_of_sum(linear_outputs, y) ==
    <<reduce_sum([n \in DOMAIN linear_outputs |->
                    IF argmax(linear_outputs[n]) = argmax(y[n]) THEN 1 ELSE 0]),
      1>>

\* lines 177-180: the accuracy as the fraction <<numerator, denominator>>
accuracy_of(linear_outputs, y) ==
    LET y_pred == [n \in DOMAIN linear_outputs |-> argmax(linear_outputs[n])]
        y_correct == [n \in DOMAIN y |-> argmax(y[n])]
        correct_prediction ==
            [n \in DOMAIN y_pred |-> IF y_pred[n] = y_correct[n] THEN 1 ELSE 0]
    IN <<reduce_sum(correct_prediction), Len(correct_prediction)>>

\* the mean loss of the batch instead of the per-example losses
losses_of_mean(y_shape, logits_shape) ==
    [op |-> "reduce_mean",
     inputs |-> {"y", "linear_outputs"},
     shape |-> <<>>]

\* lines 168-169: the node of the per-example losses
losses_of(y_shape, logits_shape) ==
    [op |-> "softmax_cross_entropy_with_logits_v2",
     inputs |-> {"y", "linear_outputs"},
     shape |-> IF y_shape = logits_shape
               THEN SubSeq(logits_shape, 1, Len(logits_shape) - 1)
               ELSE <<>>]

\* lines 172-174: one term weight_decay * l2_loss(W) per regularizable W
weight_decay_terms(regs, weight_decay) ==
    [n \in 1..Len(regs) |->
        [op |-> "mul", a |-> weight_decay,
         b |-> [op |-> "l2_loss", of |-> regs[n]]]]

\* -------------------------------------------------------- data_loading
Phases == {"train", "train_eval", "test"}

\* data_loading.load(): the image batch, the one-hot labels, the phase
data_loading_load(batch_size, image) ==
    [X |-> <<batch_size, image[1], image[2], image[3]>>,
     y |-> <<batch_size, NumClasses>>,
     phase |-> "data_loading.phase"]

\* the value an init op of data_loading assigns to the phase variable
data_loading_assign(op) ==
    CASE op = "data_loading.train_init_op" -> "train"
      [] op = "data_loading.train_eval_init_op" -> "train_eval"
      [] op = "data_loading.test_init_op" -> "test"

\* train_eval_init_op grouping the init op of the training phase
init_ops_swapped ==
    [train_init_op |-> {"data_loading.train_init_op"},
     train_eval_init_op |-> {"data_loading.train_init_op"},
     test_init_op |-> {"data_loading.test_init_op"}]

\* lines 61-64: each operation groups one init op of data_loading
init_ops ==
    [train_init_op |-> {"data_loading.train_init_op"},
     train_eval_init_op |-> {"data_loading.train_eval_init_op"},
     test_init_op |-> {"data_loading.test_init_op"}]

EmptyGraph ==
    [variables |-> {}, regularizable_variables |-> <<>>,
     REGULARIZATION_LOSSES |-> <<>>, UPDATE_OPS |-> <<>>,
     bn |-> {}, units |-> <<>>, error |-> FALSE, x |-> <<>>]

\* ------------------------------------------------------------- states
Init ==
    /\ pc = "start"
    /\ args \in [batch_size : 1..MaxBatch, num_residual_units : 1..MaxUnits,
                 k : 1..MaxK, weight_decay : WeightDecays,
                 bn_decay : BnDecays, image : Images]
    /\ inputs = <<>>
    /\ i = 0 /\ j = 0
    /\ g = EmptyGraph
    /\ out = <<>>
    /\ ops = <<>>
    /\ phase \in Phases
    /\ last_op = "none"
    /\ ran = {}
    /\ logits = <<>> /\ labels = <<>> /\ accuracy = <<>>
    /\ bn_select = <<>>

runtime == <<ops, phase, last_op, ran, logits, labels, accuracy, bn_select>>

Building(at) == pc = at /\ ~g.error

\* where set_up continues after unit bj - 1 of block bi
AfterUnit(bi, bj) ==
    IF bj \in FurtherUnits(args.num_residual_units)
    THEN /\ pc' = "further_unit" /\ i' = bi /\ j' = bj
    ELSE IF bi + 1 \in Blocks
         THEN /\ pc' = "first_unit" /\ i' = bi + 1 /\ j' = 0
         ELSE /\ pc' = "unit_last" /\ i' = bi /\ j' = bj

\* line 96
Load ==
    /\ Building("start")
    /\ inputs' = data_loading_load(args.batch_size, args.image)
    /\ g' = [g EXCEPT !.x = inputs'.X]
    /\ pc' = "conv_0"
    /\ UNCHANGED <<args, i, j, out, runtime>>

\* lines 99-100
Conv0 ==
    /\ Building("conv_0")
    /\ LET c == conv(g, g.x, TopScope, 3, 16, 1, "SAME", "conv_0")
       IN g' = [c.g EXCEPT !.x = c.x]
    /\ IF 1 \in Blocks
       THEN pc' = "first_unit" /\ i' = 1
       ELSE pc' = "unit_last" /\ i' = i
    /\ UNCHANGED <<args, inputs, j, out, runtime>>

\* lines 106-132
FirstUnit ==
    /\ Building("first_unit")
    /\ LET u == first_unit(g, g.x, i, args.k, inputs.phase, args.bn_decay)
       IN g' = [u.g EXCEPT !.x = u.x]
    /\ AfterUnit(i, 1)
    /\ UNCHANGED <<args, inputs, out, runtime>>

\* lines 135-153
FurtherUnit ==
    /\ Building("further_unit")
    /\ LET u == further_unit(g, g.x, i, j, args.k, inputs.phase, args.bn_decay)
       IN g' = [u.g EXCEPT !.x = u.x]
    /\ AfterUnit(i, j + 1)
    /\ UNCHANGED <<args, inputs, out, runtime>>

\* lines 156-159
LastUnit ==
    /\ Building("unit_last")
    /\ LET b == batch_norm(g, g.x, Scope("unit_last", 0, 0), inputs.phase,
                           args.bn_decay, "batch_norm")
       IN g' = [b.g EXCEPT !.x = <<b.x[1], b.x[4]>>]
    /\ pc' = "fully_connected"
    /\ UNCHANGED <<args, inputs, i, j, out, runtime>>

\* lines 162-169
FullyConnected ==
    /\ Building("fully_connected")
    /\ LET f == fc(g, <<g.x[1], g.x[2]>>, Scope("fully-connected", 0, 0),
                   NumClasses, "fc")
       IN /\ g' = [f.g EXCEPT !.x = f.x]
          /\ out' = [linear_outputs |-> f.x,
                     losses |-> losses_of(inputs.y, f.x)]
    /\ pc' = "weight_decay"
    /\ UNCHANGED <<args, inputs, i, j, runtime>>

\* lines 172-174
WeightDecay ==
    /\ Building("weight_decay")
    /\ g' = [g EXCEPT !.REGULARIZATION_LOSSES =
                @ \o weight_decay_terms(g.regularizable_variables,
                                        args.weight_decay)]
    /\ pc' = "accuracy"
    /\ UNCHANGED <<args, inputs, i, j, out, runtime>>

\* lines 177-182, and lines 57-58
Accuracy ==
    /\ Building("accuracy")
    /\ out' = out @@ [accuracy |-> [op |-> "reduce_mean", shape |-> <<>>]]
    /\ pc' = "init_ops"
    /\ UNCHANGED <<args, inputs, i, j, g, runtime>>

\* lines 61-64
InitOps ==
    /\ Building("init_ops")
    /\ ops' = init_ops
    /\ pc' = "ready"
    /\ UNCHANGED <<args, inputs, i, j, g, out, phase, last_op, ran,
                   logits, labels, accuracy, bn_select>>

\* session.run of one of the three operations: every op it groups runs
RunGroup(name) ==
    /\ pc = "ready"
    /\ ran' = ops[name]
    /\ phase' \in {data_loading_assign(o) : o \in ops[name]}
    /\ last_op' = name
    /\ UNCHANGED <<pc, args, inputs, i, j, g, out, ops,
                   logits, labels, accuracy, bn_select>>

RunTrainInit == RunGroup("train_init_op")
RunTrainEvalInit == RunGroup("train_eval_init_op")
RunTestInit == RunGroup("test_init_op")

\* session.run of (losses, accuracy) in the current phase: every
\* batch_norm layer evaluates its tf.cond on the phase variable it was given
Forward ==
    /\ pc = "ready"
    /\ last_op # "none"
    /\ bn_select' =
          [phase |-> phase,
           layers |-> [l \in g.bn |->
                          batch_norm_select(IF l.phase = "data_loading.phase"
                                            THEN phase ELSE "undefined")]]
    /\ UNCHANGED <<pc, args, inputs, i, j, g, out, ops, phase, last_op, ran,
                   logits, labels, accuracy>>

Next ==
    \/ Load
    \/ Conv0
    \/ FirstUnit
    \/ FurtherUnit
    \/ LastUnit
    \/ FullyConnected
    \/ WeightDecay
    \/ Accuracy
    \/ InitOps
    \/ RunTrainInit
    \/ RunTrainEvalInit
    \/ RunTestInit
    \/ Forward

Spec == Init /\ [][Next]_vars

\* ------------------------------------------- the accuracy of one batch
\* the rows of logits and the one-hot labels a batch is drawn from
Row(p, q, v) ==
    [c \in 1..NumClasses |-> IF c = p THEN 2 ELSE IF c = q THEN v ELSE 0]
LogitRows == {Row(p, q, v) : p \in PeakClasses, q \in PeakClasses, v \in 1..2}
OneHot(p) == [c \in 1..NumClasses |-> IF c = p THEN 1 ELSE 0]
OneHots == {OneHot(p) : p \in PeakClasses}

\* a batch of logits and labels fed to the accuracy node
InitAccuracy ==
    /\ pc = "evaluate"
    /\ \E B \in 1..MaxBatch :
          /\ args = [batch_size |-> B]
          /\ logits \in [1..B -> LogitRows]
          /\ labels \in [1..B -> OneHots]
    /\ accuracy = <<>>
    /\ inputs = <<>> /\ i = 0 /\ j = 0 /\ g = <<>> /\ out = <<>>
    /\ ops = <<>> /\ phase = "test" /\ last_op = "none" /\ ran = {}
    /\ bn_select = <<>>

\* lines 177-180 evaluated on the batch
EvalAccuracy ==
    /\ pc = "evaluate"
    /\ accuracy' = accuracy_of(logits, labels)
    /\ pc' = "evaluated"
    /\ UNCHANGED <<args, inputs, i, j, g, out, ops, phase, last_op, ran,
                   logits, labels, bn_select>>

NextAccuracy == EvalAccuracy

SpecAccuracy == InitAccuracy /\ [][NextAccuracy]_vars

\* ---------------------------------------------------------- properties
\* set_up has returned
Built == pc \in {"init_ops", "ready"}

RegTerm(v) == [op |-> "mul", a |-> args.weight_decay,
               b |-> [op |-> "l2_loss", of |-> v]]

RegLosses == {g.REGULARIZATION_LOSSES[n] :
                 n \in 1..Len(g.REGULARIZATION_LOSSES)}

\* C1: after set_up has returned, REGULARIZATION_LOSSES holds the term
\* weight_decay * l2_loss(W) for every convolution kernel and for the weight
\* matrix of the fully-connected layer (the variables named W), and no term
\* for the bias b, for any beta or gamma, or for any mean_avg or std_avg.
C1_WeightDecayOnWeightsOnly ==
    Built =>
       /\ \A v \in g.variables :
             /\ v.name = "W" => RegTerm(v) \in RegLosses
             /\ v.name \in {"b", "beta", "gamma", "mean_avg", "std_avg"}
                   => \A t \in RegLosses : t.b.of # v
       /\ \A v \in g.variables :
             v.name \in {"W", "b", "beta", "gamma", "mean_avg", "std_avg"}

C1_Witness ==
    /\ pc = "ready"
    /\ args.num_residual_units = 2 /\ args.k = 2 /\ args.weight_decay = 5
    /\ Cardinality(RegLosses) = 17
    /\ \E v \in g.variables : v.name = "b"
    /\ \E v \in g.variables : v.name = "W" /\ v.layer = "shortcut"

\* C2: in every run of the graph each batch_norm layer selects the batch
\* mean and variance exactly when the phase is "train" and the moving
\* averages otherwise; all layers read the one phase variable of
\* data_loading, so all make the same choice.
C2_BatchStatsIffTrain ==
    /\ Built => /\ g.bn # {}
                /\ \A l \in g.bn : l.phase = inputs.phase
    /\ bn_select # <<>> =>
          /\ DOMAIN bn_select.layers = g.bn
          /\ \A l \in g.bn :
                /\ bn_select.layers[l] = <<"mean_batch", "variance_batch">>
                      <=> bn_select.phase = "train"
                /\ bn_select.layers[l] = <<"mean_avg", "std_avg">>
                      <=> bn_select.phase # "train"
          /\ \A l, m \in g.bn : bn_select.layers[l] = bn_select.layers[m]

C2_Witness ==
    /\ bn_select # <<>>
    /\ bn_select.phase = "train_eval"
    /\ args.num_residual_units = 2
    /\ Cardinality(g.bn) = 13
    /\ \A l \in g.bn : bn_select.layers[l] = <<"mean_avg", "std_avg">>

PhaseOfOp(name) ==
    CASE name = "train_init_op" -> "train"
      [] name = "train_eval_init_op" -> "train_eval"
      [] name = "test_init_op" -> "test"

DataLoadingOp(name) ==
    CASE name = "train_init_op" -> "data_loading.train_init_op"
      [] name = "train_eval_init_op" -> "data_loading.train_eval_init_op"
      [] name = "test_init_op" -> "data_loading.test_init_op"

\* C3: the problem has exactly the three operations train_init_op,
\* train_eval_init_op and test_init_op; a run of one of them runs the init
\* op of data_loading of the same phase and nothing else, and the phase is
\* that of the operation run last until another one is run.
C3_PhaseOfLastInitOp ==
    /\ pc = "ready" =>
          /\ DOMAIN ops = {"train_init_op", "train_eval_init_op", "test_init_op"}
          /\ \A name \in DOMAIN ops : ops[name] = {DataLoadingOp(name)}
    /\ last_op # "none" =>
          /\ ran = {DataLoadingOp(last_op)}
          /\ phase = PhaseOfOp(last_op)

C3_Witness ==
    /\ last_op = "train_eval_init_op"
    /\ phase = "train_eval"
    /\ ran = {"data_loading.train_eval_init_op"}
    /\ bn_select # <<>> /\ bn_select.phase = "test"

UnitsOfBlock(b) == {u \in 1..Len(g.units) : g.units[u].sc.i = b}

C5_LossesPerExample ==
    /\ ~g.error
    /\ Built =>
          /\ out.linear_outputs = <<args.batch_size, NumClasses>>
          /\ out.losses.op = "softmax_cross_entropy_with_logits_v2"
          /\ out.losses.shape = <<args.batch_size>>
          /\ out.losses.inputs = {"y", "linear_outputs"}
          /\ \A t \in RegLosses : t.op = "mul" /\ t.b.op = "l2_loss"

C5_Witness ==
    /\ pc = "ready"
    /\ args.batch_size = 2 /\ args.k = 2 /\ args.image = <<5, 7, 1>>
    /\ out.losses.shape = <<2>>
    /\ RegLosses # {}

\* the data points of the batch whose largest logit is at the label
IsArgmax(row, c) == \A d \in DOMAIN row : row[d] <= row[c]
FirstArgmax(row, c) ==
    IsArgmax(row, c) /\ \A d \in 1..(c - 1) : ~IsArgmax(row, d)
CorrectPoints ==
    {n \in DOMAIN logits :
        \E c \in 1..NumClasses :
           FirstArgmax(logits[n], c) /\ FirstArgmax(labels[n], c)}

\* C6: the accuracy of a batch is the number of data points whose argmax
\* over the logits is the argmax over the label, divided by the batch size;
\* it lies in [0, 1], is 1 exactly when every point is classified correctly
\* and 0 exactly when none is.
C6_AccuracyIsMean ==
    pc = "evaluated" =>
       /\ accuracy[2] = args.batch_size
       /\ accuracy[1] = Cardinality(CorrectPoints)
       /\ 0 <= accuracy[1] /\ accuracy[1] <= accuracy[2]
       /\ accuracy[1] = accuracy[2] <=> CorrectPoints = DOMAIN logits
       /\ accuracy[1] = 0 <=> CorrectPoints = {}

C6_Witness ==
    /\ pc = "evaluated"
    /\ args.batch_size = 2
    /\ accuracy = <<1, 2>>
    /\ logits[1] = Row(1, 100, 2) /\ labels[1] = OneHot(1)
    /\ logits[2] = Row(100, 1, 1) /\ labels[2] = OneHot(1)

====
